---- MODULE Spec2Model ----
(***************************************************************************)
(* A model of the NFC tag reader service of cmd/nfc/main.go: the shared    *)
(* ServiceState, the poll loop, the control socket, the database watcher   *)
(* and the write mode.  Time is a clock counting whole seconds.            *)
(***************************************************************************)
EXTENDS Integers, Sequences, FiniteSets, TLC

VARIABLES
    \* ServiceState (main.go:62-71)
    mu, activeCard, lastScanned, stopService, disableLauncher,
    dbLoadTime, uidMap, textMap,
    \* the world around the service
    now, sentinel, socketOpen,
    \* startService's own thread
    mainPc,
    \* the poll loop goroutine (main.go:352-432)
    pollPc, handles, lastError, pActive, pollRes, newScanned,
    pollErr, pDisabled, tickTrace,
    \* the socket acceptor and its connections (main.go:440-508)
    accPc, connPc, connCmd, connLast, connPayload,
    \* observations of the run, used by the properties only
    seenAt, lastArrival, answered, arrivalMode, superseded, fileOpErr,
    \* the database file, its watcher (main.go:281-346) and a reader of the
    \* database
    dbFile, fileExists, watching, events, wPc, wWake, ldPc, wRead, rPc, rUid,
    rText,
    \* the write mode (main.go:626-744) and the service it stops and starts
    wmPc, wmWasRunning, wmTries, wmDev, wmTarget, wmStarts, wmExit,
    svcRunning, svcStopping,
    \* more observations: whether the sentinel file was there at the start,
    \* whether EnableLauncher has been called, when the last fail sound was
    \* played
    sentinelAtStart, enableSeen, failAt,
    \* the LaunchGame handler of the remote (launchers.go:15-42), one
    \* goroutine per request: where it is, the request body, the decoded
    \* path, the systems of the path, the status written, the system launched
    hPc, hBody, hPath, hSyss, hStatus, hLaunched

stateVars == <<mu, activeCard, lastScanned, stopService, disableLauncher,
               dbLoadTime, uidMap, textMap>>
worldVars == <<now, sentinel, socketOpen>>
pollVars  == <<pollPc, handles, lastError, pActive, pollRes,
               newScanned, pollErr, pDisabled, tickTrace>>
connVars  == <<accPc, connPc, connCmd, connLast, connPayload>>
obsVars   == <<seenAt, lastArrival, answered, arrivalMode, superseded,
               fileOpErr>>
dbVars    == <<dbFile, fileExists, watching, events, wPc, wWake, ldPc, wRead,
               rPc, rUid, rText>>
wmVars    == <<wmPc, wmWasRunning, wmTries, wmDev, wmTarget, wmStarts, wmExit,
               svcRunning, svcStopping>>
histVars  == <<sentinelAtStart, enableSeen, failAt>>
httpVars  == <<hPc, hBody, hPath, hSyss, hStatus, hLaunched>>
nfcVars   == <<stateVars, worldVars, mainPc, pollVars, connVars, obsVars,
               dbVars, wmVars, histVars>>
vars == <<nfcVars, httpVars>>

----------------------------------------------------------------------------
\* Bounds of the model.
MaxTime    == 7      \* the clock stops here
MaxHandles == 2      \* device handles the poll loop may pile up
BootUnix   == 8      \* the Unix time at which the service starts
MaxVersion == 3      \* versions of the database file that get written

\* Program constants.
timeToForgetCard == 5     \* seconds
connectMaxTries  == 10
failSoundGap     == 1     \* seconds, the literal of line 388/394/422
delay            == 1     \* seconds, the watcher's const delay (line 300)
stopTries        == 15    \* tries := 15 (line 636)

Conns == {"c1", "c2"}     \* connection goroutines that may run at once
Handlers == {"h1", "h2"}  \* LaunchGame requests that may be served at once

\* The requests of the remote's LaunchGame handler: a body that does not
\* decode, or one that decodes to a path (the empty path of a body without
\* the field included).
Paths  == {"", "games/NES/a.nes", "games/Genesis/b.md", "docs/c.txt"}
Body(ok, path) == [ok |-> ok, path |-> path]
NoBody == Body(FALSE, "")
Bodies == {NoBody} \cup {Body(TRUE, p) : p \in Paths}

\* games.FolderToSystems: the systems whose folder the path lies in, none
\* for a path outside every system folder.
FolderToSystems(path) ==
    CASE path = "games/NES/a.nes"    -> <<"NES">>
      [] path = "games/Genesis/b.md" -> <<"Genesis", "MegaDrive">>
      [] OTHER                       -> <<>>

NoSystem == ""
NoStatus == 0                        \* nothing written to the response yet
StatusBadRequest == 400
StatusInternalServerError == 500
NoThread == "none"

\* Strings are sequences of one-character strings.
EmptyStr == <<>>
Comma    == <<",">>

\* time.Time{}: the zero time, long before any reading of the clock.
ZeroTime == -1
LongAgo  == MaxTime + timeToForgetCard + failSoundGap + 1
Since(t) == IF t = ZeroTime THEN LongAgo ELSE now - t

\* A database is named by the version of the file it was loaded from;
\* NilMap is the nil map of a fresh ServiceState, EmptyMap the database
\* loaded when there is no file.
NilMap   == 0
EmptyMap == 0 - 1

\* os.Exit has not been called
NoExit == 0 - 1

TypeNTAG    == "NTAG"
TypeMifare  == "MIFARE"
TypeUnknown == ""

\* Card{} (main.go:55-60)
Card(type, uid, text, time) ==
    [CardType |-> type, UID |-> uid, Text |-> text, ScanTime |-> time]
EmptyCard == Card("", EmptyStr, EmptyStr, ZeroTime)

\* The tags that can be put on the reader: what the target reports and what
\* the tag's memory decodes to.
TagA == [uid |-> <<"a">>, type |-> TypeNTAG,    text |-> <<"g", ",", "h">>]
TagB == [uid |-> <<"b">>, type |-> TypeMifare,  text |-> <<"x">>]
TagN == [uid |-> EmptyStr, type |-> TypeUnknown, text |-> EmptyStr]
Tags  == {TagA, TagB, TagN}
NoTag == [uid |-> EmptyStr, type |-> TypeUnknown, text |-> EmptyStr]

getCardUID(target)  == target.uid
getCardType(target) == target.type

\* What one call of pnd.InitiatorPollTarget, and the read of the tag that
\* follows it, can come to.  readOk: whether readNtag / readMifare succeeds.
PollResult(err, count, target, readOk) ==
    [err |-> err, count |-> count, target |-> target, readOk |-> readOk]
PollResults ==
    {PollResult(e, 0, NoTag, TRUE) : e \in {"nil", "ETIMEOUT", "EIO", "ECHIP"}}
    \cup {PollResult("nil", 1, t, ok) : t \in Tags, ok \in BOOLEAN}
NoResult == PollResult("nil", 0, NoTag, TRUE)


\* readNtag / readMifare followed by ParseRecordText: the text decoded from
\* the record bytes, empty when there are none.
ParseRecordText(target, readOk) == IF readOk THEN target.text ELSE EmptyStr

PollOut(card, err) == [card |-> card, err |-> err]

\* pollDevice with the age test of line 160 dropped.
pollDeviceForgetful(active, r) ==
    IF r.err \notin {"nil", "ETIMEOUT"} THEN PollOut(active, r.err)
    ELSE IF r.count <= 0
    THEN PollOut(IF active.UID # EmptyStr THEN EmptyCard ELSE active, "nil")
    ELSE LET cardUid  == getCardUID(r.target)
             cardType == getCardType(r.target)
         IN  IF cardUid = active.UID THEN PollOut(active, "nil")
             ELSE IF cardType = TypeNTAG /\ ~r.readOk
             THEN PollOut(active, "EREAD")
             ELSE PollOut(Card(cardType, cardUid,
                               ParseRecordText(r.target,
                                   r.readOk /\ cardType # TypeUnknown),
                               now), "nil")

\* pollDevice with the same-UID test of line 173 dropped.
pollDeviceRescan(active, r) ==
    IF r.err \notin {"nil", "ETIMEOUT"} THEN PollOut(active, r.err)
    ELSE IF r.count <= 0
    THEN PollOut(IF active.UID # EmptyStr
                    /\ Since(active.ScanTime) > timeToForgetCard
                 THEN EmptyCard ELSE active, "nil")
    ELSE LET cardUid  == getCardUID(r.target)
             cardType == getCardType(r.target)
         IN  IF cardType = TypeNTAG /\ ~r.readOk
             THEN PollOut(active, "EREAD")
             ELSE PollOut(Card(cardType, cardUid,
                               ParseRecordText(r.target,
                                   r.readOk /\ cardType # TypeUnknown),
                               now), "nil")

\* pollDevice (main.go:150-216): the card the poll loop is to make active,
\* and the error.  An NTAG read error is wrapped with fmt.Errorf("%s"), so
\* it is no nfc.Error any more ("EREAD"); a Mifare read error is logged and
\* the record stays empty; an unknown card type is not read at all.
pollDevice(active, r) ==
    IF r.err \notin {"nil", "ETIMEOUT"} THEN PollOut(active, r.err)
    ELSE IF r.count <= 0
    THEN PollOut(IF active.UID # EmptyStr
                    /\ Since(active.ScanTime) > timeToForgetCard
                 THEN EmptyCard ELSE active, "nil")
    ELSE LET cardUid  == getCardUID(r.target)
             cardType == getCardType(r.target)
         IN  IF cardUid = active.UID THEN PollOut(active, "nil")
             ELSE IF cardType = TypeNTAG /\ ~r.readOk
             THEN PollOut(active, "EREAD")
             ELSE PollOut(Card(cardType, cardUid,
                               ParseRecordText(r.target,
                                   r.readOk /\ cardType # TypeUnknown),
                               now), "nil")

RECURSIVE openLoop(_, _)
\* the loop of openDeviceWithRetries: `fails` is the number of nfc.Open calls
\* that fail before one succeeds; TRUE when a device is returned
openLoop(tries, fails) ==
    IF fails = 0 THEN TRUE
    ELSE IF tries >= connectMaxTries THEN FALSE
    ELSE openLoop(tries + 1, fails - 1)

\* openDeviceWithRetries (main.go:563-584)
openDeviceWithRetries(fails) == openLoop(0, fails)

----------------------------------------------------------------------------
\* ServiceState's methods.  A method that only reads or writes memory takes
\* the mutex, acts and releases it in one step; DisableLauncher and
\* EnableLauncher touch the file system with the mutex held and take two.

\* A mutex that never makes anyone wait.
LockFree == TRUE

\* s.mu.Lock() can go ahead: nobody holds the mutex.
Lock == mu = NoThread

\* SetActiveCard that never touches lastScanned.
SetActiveCardNoCopy(card) ==
    /\ Lock
    /\ activeCard' = card
    /\ lastScanned' = lastScanned

\* SetActiveCard (main.go:73-80)
SetActiveCard(card) ==
    /\ Lock
    /\ activeCard' = card
    /\ lastScanned' = IF card.UID # EmptyStr THEN card ELSE lastScanned

\* IsLauncherDisabled answering false whatever the flag.
IsLauncherDisabledNever == FALSE

\* IsLauncherDisabled (main.go:124-128), the value it returns
IsLauncherDisabled == disableLauncher

\* The connections whose call of `verb` has set the flag and whose reply is
\* still to be written.
Unanswered(verb) == {c \in Conns : connPc[c] = "write" /\ connCmd[c] = verb}

\* DisableLauncher that leaves the flag alone.
DisableLauncher_LockNoFlag(t) ==
    /\ Lock
    /\ mu' = t
    /\ disableLauncher' = disableLauncher
    /\ answered' = IF answered = "enable" THEN "none" ELSE answered
    /\ arrivalMode' = IF arrivalMode = "enable" THEN "none" ELSE arrivalMode
    /\ superseded' = (superseded \cup Unanswered("enable")) \ {t}

\* DisableLauncher (main.go:106-113), up to the flag
DisableLauncher_Lock(t) ==
    /\ Lock
    /\ mu' = t
    /\ disableLauncher' = TRUE
    /\ answered' = IF answered = "enable" THEN "none" ELSE answered
    /\ arrivalMode' = IF arrivalMode = "enable" THEN "none" ELSE arrivalMode
    /\ superseded' = (superseded \cup Unanswered("enable")) \ {t}

\* DisableLauncher, os.Create and the deferred Unlock
DisableLauncher_Create(t, ok) ==
    /\ mu = t
    /\ sentinel' = IF ok THEN TRUE ELSE sentinel
    /\ fileOpErr' = IF ok THEN "nil" ELSE "create"
    /\ mu' = NoThread

\* EnableLauncher (main.go:115-122), up to the flag
EnableLauncher_Lock(t) ==
    /\ Lock
    /\ mu' = t
    /\ disableLauncher' = FALSE
    /\ enableSeen' = TRUE
    /\ answered' = IF answered = "disable" THEN "none" ELSE answered
    /\ arrivalMode' = IF arrivalMode = "disable" THEN "none" ELSE arrivalMode
    /\ superseded' = (superseded \cup Unanswered("disable")) \ {t}

\* EnableLauncher, os.Remove and the deferred Unlock.  Removing a file that
\* is not there fails (ENOENT); removing one that is there may fail too.
EnableLauncher_Remove(t, ok) ==
    /\ mu = t
    /\ sentinel' = IF ok THEN FALSE ELSE sentinel
    /\ fileOpErr' = IF ok /\ sentinel THEN "nil"
                    ELSE IF ~sentinel THEN "enoent" ELSE "remove"
    /\ mu' = NoThread

----------------------------------------------------------------------------
\* The status reply (main.go:477-490), as fmt.Sprintf writes it.

DigitChars == <<"0", "1", "2", "3", "4", "5", "6", "7", "8", "9">>

RECURSIVE FormatInt(_)
\* %d of a number >= 0
FormatInt(n) ==
    IF n < 10 THEN <<DigitChars[n + 1]>>
    ELSE FormatInt(n \div 10) \o <<DigitChars[(n % 10) + 1]>>

\* %t
FormatBool(b) == IF b THEN <<"t", "r", "u", "e">>
                 ELSE <<"f", "a", "l", "s", "e">>

\* Time.Unix(): the clock counts the seconds since the service started,
\* BootUnix seconds after the epoch
Unix(t) == BootUnix + t

\* The status reply with the text put before the flag.
StatusPayloadTextFirst(last, enabled) ==
    IF last.UID # EmptyStr
    THEN FormatInt(Unix(last.ScanTime)) \o Comma \o last.UID \o Comma
         \o last.Text \o Comma \o FormatBool(enabled)
    ELSE <<"0">> \o Comma \o Comma \o FormatBool(enabled) \o Comma

\* payload of the "status" case (main.go:479-490)
StatusPayload(last, enabled) ==
    IF last.UID # EmptyStr
    THEN FormatInt(Unix(last.ScanTime)) \o Comma \o last.UID \o Comma
         \o FormatBool(enabled) \o Comma \o last.Text
    ELSE <<"0">> \o Comma \o Comma \o FormatBool(enabled) \o Comma

\* writeScanResult's file content (main.go:532)
ScanResult(card) == card.UID \o Comma \o card.Text

----------------------------------------------------------------------------
InitState ==
    /\ mu = NoThread
    /\ activeCard = EmptyCard
    /\ lastScanned = EmptyCard
    /\ stopService = FALSE
    /\ disableLauncher = FALSE
    /\ dbLoadTime = ZeroTime
    /\ uidMap = NilMap
    /\ textMap = NilMap
    /\ now = 0
    /\ sentinel \in BOOLEAN
    /\ socketOpen = FALSE
    /\ mainPc = "stat"
    /\ pollPc = "idle"
    /\ handles = 0
    /\ lastError = ZeroTime
    /\ pActive = EmptyCard
    /\ pollRes = NoResult
    /\ newScanned = EmptyCard
    /\ pollErr = "nil"
    /\ pDisabled = FALSE
    /\ tickTrace = <<>>
    /\ accPc = "idle"
    /\ connPc = [c \in Conns |-> "free"]
    /\ connCmd = [c \in Conns |-> ""]
    /\ connLast = [c \in Conns |-> EmptyCard]
    /\ connPayload = [c \in Conns |-> EmptyStr]
    /\ seenAt = ZeroTime
    /\ lastArrival = EmptyCard
    /\ answered = "none"
    /\ arrivalMode = "none"
    /\ superseded = {}
    /\ fileOpErr = "nil"
    /\ dbFile = 1
    /\ fileExists = TRUE
    /\ watching = FALSE
    /\ events = <<>>
    /\ wPc = "boot"
    /\ wWake = 0
    /\ ldPc = "idle"
    /\ wRead = NilMap
    /\ rPc = "idle"
    /\ rUid = NilMap
    /\ rText = NilMap
    /\ wmPc = "start"
    /\ wmWasRunning = FALSE
    /\ wmTries = 0
    /\ wmDev = FALSE
    /\ wmTarget = NoTag
    /\ wmStarts = 0
    /\ wmExit = NoExit
    /\ svcStopping = FALSE
    /\ sentinelAtStart = sentinel
    /\ enableSeen = FALSE
    /\ failAt = ZeroTime
    /\ hPc = [h \in Handlers |-> "idle"]
    /\ hBody = [h \in Handlers |-> NoBody]
    /\ hPath = [h \in Handlers |-> ""]
    /\ hSyss = [h \in Handlers |-> <<>>]
    /\ hStatus = [h \in Handlers |-> NoStatus]
    /\ hLaunched = [h \in Handlers |-> NoSystem]

\* The service mode: the service is the running process.
Init ==
    /\ InitState
    /\ svcRunning = TRUE

\* The write mode is started with the service running or not.
InitWrite ==
    /\ InitState
    /\ svcRunning \in BOOLEAN

\* One second passes.  Between pollDevice's time.Now() and SetActiveCard
\* the poll loop makes no blocking call: no second passes there.
Tick ==
    /\ now < MaxTime
    /\ pollPc # "set"
    /\ now' = now + 1
    /\ UNCHANGED <<stateVars, sentinel, socketOpen, mainPc,
                   pollVars, connVars, obsVars>>
    /\ UNCHANGED <<dbVars, wmVars, histVars, httpVars>>

----------------------------------------------------------------------------
\* startService (main.go:218-521), from the sentinel check on.

\* The sentinel check finding no file, whatever there is.
MainStatBlind ==
    /\ mainPc = "stat"
    /\ mainPc' = "spawn"
    /\ UNCHANGED <<stateVars, worldVars, pollVars, connVars, obsVars>>
    /\ UNCHANGED <<dbVars, wmVars, histVars, httpVars>>

\* os.Stat(launcherDisabledPath) (main.go:348)
MainStat ==
    /\ mainPc = "stat"
    /\ mainPc' = IF sentinel THEN "disable" ELSE "spawn"
    /\ UNCHANGED <<stateVars, worldVars, pollVars, connVars, obsVars>>
    /\ UNCHANGED <<dbVars, wmVars, histVars, httpVars>>

\* state.DisableLauncher() (main.go:349)
MainDisableLock ==
    /\ mainPc = "disable"
    /\ DisableLauncher_Lock("main")
    /\ mainPc' = "create"
    /\ UNCHANGED <<activeCard, lastScanned, stopService, dbLoadTime, uidMap,
                   textMap, worldVars, pollVars, connVars, seenAt,
                   lastArrival, fileOpErr>>
    /\ UNCHANGED <<dbVars, wmVars, histVars, httpVars>>

MainDisableCreate ==
    /\ mainPc = "create"
    /\ \E ok \in BOOLEAN : DisableLauncher_Create("main", ok)
    /\ mainPc' = "spawn"
    /\ UNCHANGED <<activeCard, lastScanned, stopService, disableLauncher,
                   dbLoadTime, uidMap, textMap, now, socketOpen,
                   pollVars, connVars, seenAt, lastArrival, answered,
                   arrivalMode, superseded>>
    /\ UNCHANGED <<dbVars, wmVars, histVars, httpVars>>

\* go func() { ... } (main.go:352): the poll loop starts
MainSpawnPoll ==
    /\ mainPc = "spawn"
    /\ mainPc' = "listen"
    /\ pollPc' = "open"
    /\ UNCHANGED <<stateVars, worldVars, handles, lastError, pActive, pollRes,
                   newScanned, pollErr, pDisabled, tickTrace, connVars,
                   obsVars>>
    /\ UNCHANGED <<dbVars, wmVars, histVars, httpVars>>

\* net.Listen (main.go:434-438) and the acceptor goroutine (main.go:440)
MainListen ==
    /\ mainPc = "listen"
    /\ \E ok \in BOOLEAN :
         IF ok
         THEN mainPc' = "serving" /\ socketOpen' = TRUE /\ accPc' = "check"
         ELSE mainPc' = "failed" /\ UNCHANGED <<socketOpen, accPc>>
    /\ UNCHANGED <<stateVars, now, sentinel, pollVars, connPc,
                   connCmd, connLast, connPayload, obsVars>>
    /\ UNCHANGED <<dbVars, wmVars, histVars, httpVars>>

\* the stop function: socket.Close() (main.go:511)
StopClose ==
    /\ mainPc = "serving"
    /\ mainPc' = "stopping"
    /\ socketOpen' = FALSE
    /\ UNCHANGED <<stateVars, now, sentinel, pollVars, connVars,
                   obsVars>>
    /\ UNCHANGED <<dbVars, wmVars, histVars, httpVars>>

\* the stop function: state.StopService() and closeDbWatcher(), which
\* ends the watch on the database file (main.go:515-519, 94-98)
StopService ==
    /\ mainPc = "stopping"
    /\ Lock
    /\ stopService' = TRUE
    /\ watching' = FALSE
    /\ mainPc' = "stopped"
    /\ UNCHANGED <<mu, activeCard, lastScanned, disableLauncher, dbLoadTime,
                   uidMap, textMap, worldVars, pollVars, connVars, obsVars>>
    /\ UNCHANGED <<dbFile, fileExists, events, wPc, wWake, ldPc, wRead, rPc,
                   rUid, rText, wmVars, histVars, httpVars>>

----------------------------------------------------------------------------
\* The poll loop (main.go:352-432).

\* What the loop does in one iteration, in order: "set" (SetActiveCard),
\* "success" and "fail" (the sounds), "scanfile" (with what is written),
\* "launch".
Ev(name, arg) == [ev |-> name, arg |-> arg]

tickLocals == <<pActive, pollRes, newScanned, pollErr, pDisabled>>

ResetTick ==
    /\ pActive' = EmptyCard
    /\ pollRes' = NoResult
    /\ newScanned' = EmptyCard
    /\ pollErr' = "nil"
    /\ pDisabled' = FALSE

\* the fail sound, unless the last error is a second old or less
FailSound == IF Since(lastError) > failSoundGap
             THEN <<Ev("fail", EmptyStr)>> ELSE <<>>

\* pnd, err = openDeviceWithRetries(cfg.Nfc) (main.go:356-367); on success
\* the handle's Close is deferred
PollOpen ==
    /\ pollPc = "open"
    /\ \E fails \in 0 .. connectMaxTries + 1 :
         IF openDeviceWithRetries(fails)
         THEN handles' = handles + 1 /\ pollPc' = "init"
         ELSE handles' = handles /\ pollPc' = "return"
    /\ UNCHANGED <<stateVars, worldVars, mainPc, lastError, tickLocals,
                   tickTrace, connVars, obsVars>>
    /\ UNCHANGED <<dbVars, wmVars, histVars, httpVars>>

\* pnd.InitiatorInit() and var lastError (main.go:369-376)
PollInit ==
    /\ pollPc = "init"
    /\ \E ok \in BOOLEAN : pollPc' = IF ok THEN "top" ELSE "return"
    /\ lastError' = ZeroTime
    /\ UNCHANGED <<stateVars, worldVars, mainPc, handles, tickLocals,
                   tickTrace, connVars, obsVars>>
    /\ UNCHANGED <<dbVars, wmVars, histVars, httpVars>>

\* the goroutine returns: every deferred pnd.Close() runs (main.go:362-367)
PollReturn ==
    /\ pollPc = "return"
    /\ handles' = 0
    /\ pollPc' = "done"
    /\ UNCHANGED <<stateVars, worldVars, mainPc, lastError, tickLocals,
                   tickTrace, connVars, obsVars>>
    /\ UNCHANGED <<dbVars, wmVars, histVars, httpVars>>

\* PollTop never seeing the stop flag.
PollTopDeaf ==
    /\ pollPc = "top"
    /\ Lock
    /\ pollPc' = "get"
    /\ UNCHANGED <<stateVars, worldVars, mainPc, handles, lastError,
                   tickLocals, tickTrace, connVars, obsVars>>
    /\ UNCHANGED <<dbVars, wmVars, histVars, httpVars>>

\* state.ShouldStopService() (main.go:379-381)
PollTop ==
    /\ pollPc = "top"
    /\ Lock
    /\ pollPc' = IF stopService THEN "return" ELSE "get"
    /\ UNCHANGED <<stateVars, worldVars, mainPc, handles, lastError,
                   tickLocals, tickTrace, connVars, obsVars>>
    /\ UNCHANGED <<dbVars, wmVars, histVars, httpVars>>

\* activeCard := state.GetActiveCard() (main.go:383)
PollGet ==
    /\ pollPc = "get"
    /\ Lock
    /\ pActive' = activeCard
    /\ tickTrace' = <<>>
    /\ pollPc' = "poll"
    /\ UNCHANGED <<stateVars, worldVars, mainPc, handles, lastError,
                   pollRes, newScanned, pollErr, pDisabled, connVars, obsVars>>
    /\ UNCHANGED <<dbVars, wmVars, histVars, httpVars>>

\* newScanned, err := pollDevice(&pnd, activeCard) (main.go:384)
PollPollIn(R) ==
    /\ pollPc = "poll"
    /\ \E r \in R :
         /\ r.err = "EIO" => handles < MaxHandles
         /\ LET out == pollDevice(pActive, r) IN
              /\ pollRes' = r
              /\ newScanned' = out.card
              /\ pollErr' = out.err
              /\ pollPc' = IF out.err = "EIO" THEN "eio"
                           ELSE IF out.err # "nil" THEN "err" ELSE "set"
              /\ seenAt' = IF out.err = "nil" /\ r.count > 0
                              /\ getCardUID(r.target) # EmptyStr
                           THEN now ELSE seenAt
    /\ arrivalMode' = answered
    /\ UNCHANGED <<stateVars, worldVars, mainPc, handles, lastError,
                   pActive, pDisabled, tickTrace, connVars, lastArrival,
                   answered, superseded, fileOpErr>>
    /\ UNCHANGED <<dbVars, wmVars, histVars, httpVars>>

PollPoll == PollPollIn(PollResults)

\* the same while the reader and the tags answer without error
PollPollClean == PollPollIn({r \in PollResults : r.err = "nil" /\ r.readOk})

\* the same with a reader that fails, times out or returns one tag
PollPollFaulty ==
    PollPollIn({r \in PollResults : r.err # "nil" \/ (r.target = TagA /\ r.readOk)})

\* the EIO branch (main.go:385-391): lastError is left alone
PollEIO ==
    /\ pollPc = "eio"
    /\ tickTrace' = tickTrace \o FailSound
    /\ pollPc' = "open"
    /\ ResetTick
    /\ arrivalMode' = "none"
    /\ UNCHANGED <<stateVars, worldVars, mainPc, handles, lastError,
                   connVars, seenAt, lastArrival, answered, superseded,
                   fileOpErr>>
    /\ failAt' = IF FailSound # <<>> THEN now ELSE failAt
    /\ UNCHANGED <<dbVars, wmVars, sentinelAtStart, enableSeen, httpVars>>

\* the other errors (main.go:392-398)
PollErr ==
    /\ pollPc = "err"
    /\ tickTrace' = tickTrace \o FailSound
    /\ lastError' = now
    /\ pollPc' = "end"
    /\ UNCHANGED <<stateVars, worldVars, mainPc, handles, tickLocals,
                   connVars, obsVars>>
    /\ failAt' = IF FailSound # <<>> THEN now ELSE failAt
    /\ UNCHANGED <<dbVars, wmVars, sentinelAtStart, enableSeen, httpVars>>

\* PollSetActive going on at line 414, past the success sound and the write.
PollSetActiveQuiet ==
    /\ pollPc = "set"
    /\ SetActiveCard(newScanned)
    /\ tickTrace' = Append(tickTrace, Ev("set", EmptyStr))
    /\ IF newScanned.UID = EmptyStr \/ pActive.UID = newScanned.UID
       THEN pollPc' = "end" /\ UNCHANGED lastArrival
       ELSE pollPc' = "check" /\ lastArrival' = newScanned
    /\ UNCHANGED <<mu, stopService, disableLauncher, dbLoadTime, uidMap,
                   textMap, worldVars, mainPc, handles, lastError,
                   tickLocals, connVars, seenAt, answered, arrivalMode,
                   superseded, fileOpErr>>
    /\ UNCHANGED <<dbVars, wmVars, histVars, httpVars>>

\* PollSetActive going on to the sound, the file and the launch without
\* having stored the card.
PollSetActiveLate ==
    /\ pollPc = "set"
    /\ Lock
    /\ UNCHANGED <<activeCard, lastScanned, tickTrace>>
    /\ IF newScanned.UID = EmptyStr \/ pActive.UID = newScanned.UID
       THEN pollPc' = "end" /\ UNCHANGED lastArrival
       ELSE pollPc' = "success" /\ lastArrival' = newScanned
    /\ UNCHANGED <<mu, stopService, disableLauncher, dbLoadTime, uidMap,
                   textMap, worldVars, mainPc, handles, lastError,
                   tickLocals, connVars, seenAt, answered, arrivalMode,
                   superseded, fileOpErr>>
    /\ UNCHANGED <<dbVars, wmVars, histVars, httpVars>>

\* state.SetActiveCard(newScanned) and the test after it (main.go:401-405)
PollSetActive ==
    /\ pollPc = "set"
    /\ SetActiveCard(newScanned)
    /\ tickTrace' = Append(tickTrace, Ev("set", EmptyStr))
    /\ IF newScanned.UID = EmptyStr \/ pActive.UID = newScanned.UID
       THEN pollPc' = "end" /\ UNCHANGED lastArrival
       ELSE pollPc' = "success" /\ lastArrival' = newScanned
    /\ UNCHANGED <<mu, stopService, disableLauncher, dbLoadTime, uidMap,
                   textMap, worldVars, mainPc, handles, lastError,
                   tickLocals, connVars, seenAt, answered, arrivalMode,
                   superseded, fileOpErr>>
    /\ UNCHANGED <<dbVars, wmVars, histVars, httpVars>>

\* playSuccess() (main.go:407)
PollSuccess ==
    /\ pollPc = "success"
    /\ tickTrace' = Append(tickTrace, Ev("success", EmptyStr))
    /\ pollPc' = "write"
    /\ UNCHANGED <<stateVars, worldVars, mainPc, handles, lastError,
                   tickLocals, connVars, obsVars>>
    /\ UNCHANGED <<dbVars, wmVars, histVars, httpVars>>

\* writeScanResult(newScanned) (main.go:409-412, 523-538); its error is
\* logged and nothing else
PollWrite ==
    /\ pollPc = "write"
    /\ tickTrace' = Append(tickTrace, Ev("scanfile", ScanResult(newScanned)))
    /\ pollPc' = "check"
    /\ UNCHANGED <<stateVars, worldVars, mainPc, handles, lastError,
                   tickLocals, connVars, obsVars>>
    /\ UNCHANGED <<dbVars, wmVars, histVars, httpVars>>

\* state.IsLauncherDisabled() (main.go:414-417)
PollCheck ==
    /\ pollPc = "check"
    /\ Lock
    /\ pDisabled' = IsLauncherDisabled
    /\ pollPc' = IF IsLauncherDisabled THEN "end" ELSE "launch"
    /\ UNCHANGED <<stateVars, worldVars, mainPc, handles, lastError,
                   pActive, pollRes, newScanned, pollErr, tickTrace,
                   connVars, obsVars>>
    /\ UNCHANGED <<dbVars, wmVars, histVars, httpVars>>

\* launchCard(cfg, state, kbd) returning no error (main.go:419-420)
PollLaunch ==
    /\ pollPc = "launch"
    /\ tickTrace' = Append(tickTrace, Ev("launch", EmptyStr))
    /\ pollPc' = "end"
    /\ UNCHANGED <<stateVars, worldVars, mainPc, handles, lastError,
                   tickLocals, connVars, obsVars>>
    /\ UNCHANGED <<dbVars, wmVars, histVars, httpVars>>

\* launchCard returning an error (main.go:419-427)
PollLaunchFail ==
    /\ pollPc = "launch"
    /\ tickTrace' = Append(tickTrace, Ev("launch", EmptyStr)) \o FailSound
    /\ lastError' = now
    /\ pollPc' = "end"
    /\ UNCHANGED <<stateVars, worldVars, mainPc, handles, tickLocals,
                   connVars, obsVars>>
    /\ failAt' = IF FailSound # <<>> THEN now ELSE failAt
    /\ UNCHANGED <<dbVars, wmVars, sentinelAtStart, enableSeen, httpVars>>

\* time.Sleep(periodBetweenLoop) (main.go:429-430)
PollSleep ==
    /\ pollPc = "end"
    /\ pollPc' = "top"
    /\ ResetTick
    /\ tickTrace' = <<>>
    /\ arrivalMode' = "none"
    /\ UNCHANGED <<stateVars, worldVars, mainPc, handles, lastError,
                   connVars, seenAt, lastArrival, answered, superseded,
                   fileOpErr>>
    /\ UNCHANGED <<dbVars, wmVars, histVars, httpVars>>

----------------------------------------------------------------------------
\* The control socket (main.go:440-508).

Requests == {"status", "disable", "enable", "bogus"}

\* state.ShouldStopService() at the top of the accept loop (main.go:442-444)
AccCheck ==
    /\ accPc = "check"
    /\ Lock
    /\ accPc' = IF stopService THEN "done" ELSE "accept"
    /\ UNCHANGED <<stateVars, worldVars, mainPc, pollVars, connPc, connCmd,
                   connLast, connPayload, obsVars>>
    /\ UNCHANGED <<dbVars, wmVars, histVars, httpVars>>

\* socket.Accept() (main.go:446-452): a client connects and a goroutine is
\* started for it, or the socket was closed and Accept fails
AcceptIn(S) ==
    /\ accPc = "accept"
    /\ \/ /\ socketOpen
          /\ \E c \in S :
               /\ connPc[c] = "free"
               /\ connPc' = [connPc EXCEPT ![c] = "read"]
          /\ accPc' = "check"
       \/ /\ ~socketOpen
          /\ accPc' = "done"
          /\ UNCHANGED connPc
    /\ UNCHANGED <<stateVars, worldVars, mainPc, pollVars, connCmd, connLast,
                   connPayload, obsVars>>
    /\ UNCHANGED <<dbVars, wmVars, histVars, httpVars>>

\* conn.Read and the switch (main.go:464-477): a read error or an empty
\* read ends the goroutine, an unknown command is answered with nothing
ConnReadIn(c, R) ==
    /\ connPc[c] = "read"
    /\ \/ /\ connPc' = [connPc EXCEPT ![c] = "close"]
          /\ UNCHANGED connCmd
       \/ \E req \in R :
            /\ connCmd' = [connCmd EXCEPT ![c] = req]
            /\ connPc' = [connPc EXCEPT ![c] =
                            IF req = "bogus" THEN "write" ELSE req]
    /\ UNCHANGED <<stateVars, worldVars, mainPc, pollVars, accPc, connLast,
                   connPayload, obsVars>>
    /\ UNCHANGED <<dbVars, wmVars, histVars, httpVars>>

ConnRead(c) == ConnReadIn(c, Requests)

\* the same for a client that only switches the launcher off and on
ConnReadSwitch(c) == ConnReadIn(c, {"disable", "enable"})

\* the same for a client that only asks for the status
ConnReadStatus(c) == ConnReadIn(c, {"status"})

\* lastScanned := state.GetLastScanned() (main.go:479, 88-92)
ConnStatusLast(c) ==
    /\ connPc[c] = "status"
    /\ Lock
    /\ connLast' = [connLast EXCEPT ![c] = lastScanned]
    /\ connPc' = [connPc EXCEPT ![c] = "format"]
    /\ UNCHANGED <<stateVars, worldVars, mainPc, pollVars, accPc, connCmd,
                   connPayload, obsVars>>
    /\ UNCHANGED <<dbVars, wmVars, histVars, httpVars>>

\* fmt.Sprintf(..., !state.IsLauncherDisabled(), ...) (main.go:480-490)
ConnStatusFormat(c) ==
    /\ connPc[c] = "format"
    /\ Lock
    /\ connPayload' = [connPayload EXCEPT ![c] =
                         StatusPayload(connLast[c], ~IsLauncherDisabled)]
    /\ connPc' = [connPc EXCEPT ![c] = "write"]
    /\ UNCHANGED <<stateVars, worldVars, mainPc, pollVars, accPc, connCmd,
                   connLast, obsVars>>
    /\ UNCHANGED <<dbVars, wmVars, histVars, httpVars>>

\* state.DisableLauncher() (main.go:492)
ConnDisableLock(c) ==
    /\ connPc[c] = "disable"
    /\ DisableLauncher_Lock(c)
    /\ connPc' = [connPc EXCEPT ![c] = "create"]
    /\ UNCHANGED <<activeCard, lastScanned, stopService, dbLoadTime, uidMap,
                   textMap, worldVars, mainPc, pollVars, accPc, connCmd,
                   connLast, connPayload, seenAt, lastArrival, fileOpErr>>
    /\ UNCHANGED <<dbVars, wmVars, histVars, httpVars>>

ConnDisableCreate(c) ==
    /\ connPc[c] = "create"
    /\ \E ok \in BOOLEAN : DisableLauncher_Create(c, ok)
    /\ connPc' = [connPc EXCEPT ![c] = "write"]
    /\ UNCHANGED <<activeCard, lastScanned, stopService, disableLauncher,
                   dbLoadTime, uidMap, textMap, now, socketOpen,
                   mainPc, pollVars, accPc, connCmd, connLast, connPayload,
                   seenAt, lastArrival, answered, arrivalMode, superseded>>
    /\ UNCHANGED <<dbVars, wmVars, histVars, httpVars>>

\* state.EnableLauncher() (main.go:495)
ConnEnableLock(c) ==
    /\ connPc[c] = "enable"
    /\ EnableLauncher_Lock(c)
    /\ connPc' = [connPc EXCEPT ![c] = "remove"]
    /\ UNCHANGED <<activeCard, lastScanned, stopService, dbLoadTime, uidMap,
                   textMap, worldVars, mainPc, pollVars, accPc, connCmd,
                   connLast, connPayload, seenAt, lastArrival, fileOpErr>>
    /\ UNCHANGED <<dbVars, wmVars, sentinelAtStart, failAt, httpVars>>

ConnEnableRemove(c) ==
    /\ connPc[c] = "remove"
    /\ \E ok \in BOOLEAN : EnableLauncher_Remove(c, ok)
    /\ connPc' = [connPc EXCEPT ![c] = "write"]
    /\ UNCHANGED <<activeCard, lastScanned, stopService, disableLauncher,
                   dbLoadTime, uidMap, textMap, now, socketOpen,
                   mainPc, pollVars, accPc, connCmd, connLast, connPayload,
                   seenAt, lastArrival, answered, arrivalMode, superseded>>
    /\ UNCHANGED <<dbVars, wmVars, histVars, httpVars>>

\* ConnWrite waiting for another request on the same connection.
ConnWriteKeepAlive(c) ==
    /\ connPc[c] = "write"
    /\ connPc' = [connPc EXCEPT ![c] = "read"]
    /\ answered' = IF connCmd[c] \in {"disable", "enable"}
                      /\ c \notin superseded
                   THEN connCmd[c] ELSE answered
    /\ superseded' = superseded \ {c}
    /\ UNCHANGED <<stateVars, worldVars, mainPc, pollVars, accPc, connCmd,
                   connLast, connPayload, seenAt, lastArrival, arrivalMode,
                   fileOpErr>>
    /\ UNCHANGED <<dbVars, wmVars, histVars, httpVars>>

\* conn.Write([]byte(payload)) (main.go:501-505): the request is answered
ConnWrite(c) ==
    /\ connPc[c] = "write"
    /\ connPc' = [connPc EXCEPT ![c] = "close"]
    /\ answered' = IF connCmd[c] \in {"disable", "enable"}
                      /\ c \notin superseded
                   THEN connCmd[c] ELSE answered
    /\ superseded' = superseded \ {c}
    /\ UNCHANGED <<stateVars, worldVars, mainPc, pollVars, accPc, connCmd,
                   connLast, connPayload, seenAt, lastArrival, arrivalMode,
                   fileOpErr>>
    /\ UNCHANGED <<dbVars, wmVars, histVars, httpVars>>

\* the deferred conn.Close() (main.go:455-460)
ConnClose(c) ==
    /\ connPc[c] = "close"
    /\ connPc' = [connPc EXCEPT ![c] = "free"]
    /\ connCmd' = [connCmd EXCEPT ![c] = ""]
    /\ connLast' = [connLast EXCEPT ![c] = EmptyCard]
    /\ connPayload' = [connPayload EXCEPT ![c] = EmptyStr]
    /\ UNCHANGED <<stateVars, worldVars, mainPc, pollVars, accPc, obsVars>>
    /\ UNCHANGED <<dbVars, wmVars, histVars, httpVars>>

AccAccept == AcceptIn(Conns)

\* the same with a single client at a time
AccAcceptOne == AcceptIn({"c1"})

Conn(c) ==
    \/ ConnRead(c)
    \/ ConnStatusLast(c)
    \/ ConnStatusFormat(c)
    \/ ConnDisableLock(c)
    \/ ConnDisableCreate(c)
    \/ ConnEnableLock(c)
    \/ ConnEnableRemove(c)
    \/ ConnWrite(c)
    \/ ConnClose(c)

ConnSwitch(c) ==
    \/ ConnReadSwitch(c)
    \/ ConnDisableLock(c)
    \/ ConnDisableCreate(c)
    \/ ConnEnableLock(c)
    \/ ConnEnableRemove(c)
    \/ ConnWrite(c)
    \/ ConnClose(c)

ConnStatus(c) ==
    \/ ConnReadStatus(c)
    \/ ConnStatusLast(c)
    \/ ConnStatusFormat(c)
    \/ ConnWrite(c)
    \/ ConnClose(c)

----------------------------------------------------------------------------
\* The database: loadDatabase, SetDB and GetDB, the file and its watcher.
\* SetDB and GetDB are taken a statement at a time, each under the mutex.

LoadCallers == {"boot", "loadW", "loadR"}

\* loadDatabase: read and parse the file; a missing file is the empty
\* database.
LoadRead ==
    /\ wPc \in LoadCallers
    /\ ldPc = "idle"
    /\ wRead' = IF fileExists THEN dbFile ELSE EmptyMap
    /\ ldPc' = "lock"
    /\ UNCHANGED <<stateVars, worldVars, mainPc, pollVars, connVars, obsVars,
                   dbFile, fileExists, watching, events, wPc, wWake, rPc,
                   rUid, rText, wmVars, histVars, httpVars>>

\* s.mu.Lock() of SetDB (main.go:143)
SetDB_Lock ==
    /\ ldPc = "lock"
    /\ Lock
    /\ mu' = "db"
    /\ ldPc' = "time"
    /\ UNCHANGED <<activeCard, lastScanned, stopService, disableLauncher,
                   dbLoadTime, uidMap, textMap, worldVars, mainPc, pollVars,
                   connVars, obsVars, dbFile, fileExists, watching, events,
                   wPc, wWake, wRead, rPc, rUid, rText, wmVars, histVars, httpVars>>

\* s.dbLoadTime = time.Now() (main.go:145)
SetDB_Time ==
    /\ ldPc = "time"
    /\ dbLoadTime' = now
    /\ ldPc' = "uid"
    /\ UNCHANGED <<mu, activeCard, lastScanned, stopService, disableLauncher,
                   uidMap, textMap, worldVars, mainPc, pollVars,
                   connVars, obsVars, dbFile, fileExists, watching, events,
                   wPc, wWake, wRead, rPc, rUid, rText, wmVars, histVars, httpVars>>

\* s.uidMap = uidMap (main.go:146)
SetDB_Uid ==
    /\ ldPc = "uid"
    /\ uidMap' = wRead
    /\ ldPc' = "text"
    /\ UNCHANGED <<mu, activeCard, lastScanned, stopService, disableLauncher,
                   dbLoadTime, textMap, worldVars, mainPc, pollVars,
                   connVars, obsVars, dbFile, fileExists, watching, events,
                   wPc, wWake, wRead, rPc, rUid, rText, wmVars, histVars, httpVars>>

\* s.textMap = textMap and the deferred Unlock (main.go:147-148); the caller
\* of loadDatabase goes on: startService to dbWatcher.Add, the watcher to
\* its select.
SetDB_Text ==
    /\ ldPc = "text"
    /\ textMap' = wRead
    /\ mu' = NoThread
    /\ ldPc' = "idle"
    /\ wPc' = IF wPc = "boot" THEN "add" ELSE "recv"
    /\ UNCHANGED <<activeCard, lastScanned, stopService, disableLauncher,
                   dbLoadTime, uidMap, worldVars, mainPc, pollVars,
                   connVars, obsVars, dbFile, fileExists, watching, events,
                   wWake, wRead, rPc, rUid, rText, wmVars, histVars, httpVars>>

\* dbWatcher.Add(config.NfcDatabaseFile) (main.go:343)
WatchAdd ==
    /\ wPc = "add"
    /\ watching' = fileExists
    /\ wPc' = "recv"
    /\ UNCHANGED <<stateVars, worldVars, mainPc, pollVars, connVars, obsVars,
                   dbFile, fileExists, events, wWake, ldPc, wRead, rPc,
                   rUid, rText, wmVars, histVars, httpVars>>

\* The watcher takes an event (main.go:303-312, 318-320).  A Write event
\* is dropped when the database was loaded less than delay ago.
WatchRecv ==
    /\ wPc = "recv"
    /\ events # <<>>
    /\ events' = Tail(events)
    /\ IF Head(events) = "Write"
       THEN /\ Lock
            /\ IF Since(dbLoadTime) < delay
               THEN UNCHANGED <<wPc, wWake>>
               ELSE wPc' = "sleepW" /\ wWake' = now + delay
       ELSE wPc' = "sleepR" /\ wWake' = now + delay
    /\ UNCHANGED <<stateVars, worldVars, mainPc, pollVars, connVars, obsVars,
                   dbFile, fileExists, watching, ldPc, wRead, rPc,
                   rUid, rText, wmVars, histVars, httpVars>>

\* time.Sleep(delay) is over (main.go:312, 320)
WatchWake ==
    /\ wPc \in {"sleepW", "sleepR"}
    /\ now >= wWake
    /\ wPc' = IF wPc = "sleepW" THEN "loadW" ELSE "statR"
    /\ UNCHANGED <<stateVars, worldVars, mainPc, pollVars, connVars, obsVars,
                   dbFile, fileExists, watching, events, wWake, ldPc, wRead,
                   rPc, rUid, rText, wmVars, histVars, httpVars>>

\* os.Stat and dbWatcher.Add after a Remove event (main.go:321-326)
WatchStat ==
    /\ wPc = "statR"
    /\ IF fileExists
       THEN watching' = TRUE /\ wPc' = "loadR"
       ELSE watching' = watching /\ wPc' = "recv"
    /\ UNCHANGED <<stateVars, worldVars, mainPc, pollVars, connVars, obsVars,
                   dbFile, fileExists, events, wWake, ldPc, wRead,
                   rPc, rUid, rText, wmVars, histVars, httpVars>>

\* Somebody writes the database file while the service watches for it.
FileWrite ==
    /\ wPc \notin {"boot", "add"}
    /\ fileExists
    /\ dbFile < MaxVersion
    /\ dbFile' = dbFile + 1
    /\ events' = IF watching THEN Append(events, "Write") ELSE events
    /\ UNCHANGED <<stateVars, worldVars, mainPc, pollVars, connVars, obsVars,
                   fileExists, watching, wPc, wWake, ldPc, wRead,
                   rPc, rUid, rText, wmVars, histVars, httpVars>>

\* An editor deletes the file, which ends the watch on it ...
FileRemove ==
    /\ wPc \notin {"boot", "add"}
    /\ fileExists
    /\ dbFile < MaxVersion
    /\ fileExists' = FALSE
    /\ watching' = FALSE
    /\ events' = IF watching THEN Append(events, "Remove") ELSE events
    /\ UNCHANGED <<stateVars, worldVars, mainPc, pollVars, connVars, obsVars,
                   dbFile, wPc, wWake, ldPc, wRead, rPc, rUid, rText, wmVars, histVars, httpVars>>

\* ... and creates it again with the new content.
FileCreate ==
    /\ ~fileExists
    /\ fileExists' = TRUE
    /\ dbFile' = dbFile + 1
    /\ UNCHANGED <<stateVars, worldVars, mainPc, pollVars, connVars, obsVars,
                   watching, events, wPc, wWake, ldPc, wRead, rPc, rUid,
                   rText, wmVars, histVars, httpVars>>

\* s.mu.Lock() of GetDB (main.go:131), called by a goroutine that looks a
\* tag up
GetDB_Lock ==
    /\ rPc = "idle"
    /\ Lock
    /\ mu' = "reader"
    /\ rPc' = "uid"
    /\ UNCHANGED <<activeCard, lastScanned, stopService, disableLauncher,
                   dbLoadTime, uidMap, textMap, worldVars, mainPc, pollVars,
                   connVars, obsVars, dbFile, fileExists, watching, events,
                   wPc, wWake, ldPc, wRead, rUid, rText, wmVars, histVars, httpVars>>

\* return s.uidMap, ... (main.go:133)
GetDB_Uid ==
    /\ rPc = "uid"
    /\ rUid' = uidMap
    /\ rPc' = "text"
    /\ UNCHANGED <<stateVars, worldVars, mainPc, pollVars, connVars, obsVars,
                   dbFile, fileExists, watching, events, wPc, wWake, ldPc,
                   wRead, rText, wmVars, histVars, httpVars>>

\* ... s.textMap and the deferred Unlock (main.go:132-133)
GetDB_Text ==
    /\ rPc = "text"
    /\ rText' = textMap
    /\ mu' = NoThread
    /\ rPc' = "got"
    /\ UNCHANGED <<activeCard, lastScanned, stopService, disableLauncher,
                   dbLoadTime, uidMap, textMap, worldVars, mainPc, pollVars,
                   connVars, obsVars, dbFile, fileExists, watching, events,
                   wPc, wWake, ldPc, wRead, rUid, wmVars, histVars, httpVars>>

\* The caller has used the pair and will ask again.
GetDB_Done ==
    /\ rPc = "got"
    /\ rPc' = "idle"
    /\ UNCHANGED <<stateVars, worldVars, mainPc, pollVars, connVars, obsVars,
                   dbFile, fileExists, watching, events, wPc, wWake, ldPc,
                   wRead, rUid, rText, wmVars, histVars, httpVars>>

----------------------------------------------------------------------------
\* handleWriteCommand (main.go:626-744) and the service it stops and starts.

\* Leave through restartService with the given exit code.
WriteLeave(code) ==
    /\ wmExit' = code
    /\ wmPc' = "restart"

\* serviceRunning := svc.Running() (main.go:627-628)
WriteRunning ==
    /\ wmPc = "start"
    /\ wmWasRunning' = svcRunning
    /\ wmPc' = IF svcRunning THEN "stop" ELSE "open"
    /\ UNCHANGED <<stateVars, worldVars, mainPc, pollVars, connVars, obsVars,
                   histVars, httpVars, dbVars, wmTries, wmDev, wmTarget, wmStarts, wmExit,
                   svcRunning, svcStopping>>

\* svc.Stop() (main.go:629-636): the service is told to stop, or the
\* request fails and the process exits.
WriteStop ==
    /\ wmPc = "stop"
    /\ \E ok \in BOOLEAN :
         IF ok
         THEN /\ svcStopping' = svcRunning
              /\ wmTries' = stopTries
              /\ wmPc' = "wait"
              /\ wmExit' = wmExit
         ELSE /\ wmExit' = 1
              /\ wmPc' = "exited"
              /\ UNCHANGED <<svcStopping, wmTries>>
    /\ UNCHANGED <<stateVars, worldVars, mainPc, pollVars, connVars, obsVars,
                   histVars, httpVars, dbVars, wmWasRunning, wmDev, wmTarget, wmStarts,
                   svcRunning>>

\* if !svc.Running() { break } (main.go:638-640)
WriteWait ==
    /\ wmPc = "wait"
    /\ wmPc' = IF svcRunning THEN "nap" ELSE "open"
    /\ UNCHANGED <<stateVars, worldVars, mainPc, pollVars, connVars, obsVars,
                   histVars, httpVars, dbVars, wmWasRunning, wmTries, wmDev, wmTarget, wmStarts,
                   wmExit, svcRunning, svcStopping>>

\* time.Sleep; tries--; if tries <= 0 { os.Exit(1) } (main.go:641-647)
WriteNap ==
    /\ wmPc = "nap"
    /\ wmTries' = wmTries - 1
    /\ IF wmTries - 1 <= 0
       THEN wmExit' = 1 /\ wmPc' = "exited"
       ELSE wmExit' = wmExit /\ wmPc' = "wait"
    /\ UNCHANGED <<stateVars, worldVars, mainPc, pollVars, connVars, obsVars,
                   histVars, httpVars, dbVars, wmWasRunning, wmDev, wmTarget, wmStarts,
                   svcRunning, svcStopping>>

\* openDeviceWithRetries (main.go:675-681)
WriteOpen ==
    /\ wmPc = "open"
    /\ \E fails \in 0 .. connectMaxTries + 1 :
         IF openDeviceWithRetries(fails)
         THEN wmDev' = TRUE /\ wmPc' = "poll" /\ wmExit' = wmExit
         ELSE wmDev' = wmDev /\ WriteLeave(1)
    /\ UNCHANGED <<stateVars, worldVars, mainPc, pollVars, connVars, obsVars,
                   histVars, httpVars, dbVars, wmWasRunning, wmTries, wmTarget, wmStarts,
                   svcRunning, svcStopping>>

\* pnd.InitiatorPollTarget (main.go:691-705)
WritePoll ==
    /\ wmPc = "poll"
    /\ \E r \in PollResults :
         IF r.err # "nil" \/ r.count = 0
         THEN wmTarget' = wmTarget /\ WriteLeave(1)
         ELSE wmTarget' = r.target /\ wmPc' = "write" /\ wmExit' = wmExit
    /\ UNCHANGED <<stateVars, worldVars, mainPc, pollVars, connVars, obsVars,
                   histVars, httpVars, dbVars, wmWasRunning, wmTries, wmDev, wmStarts,
                   svcRunning, svcStopping>>

\* writeMifare / writeNtag by card type (main.go:707-738)
WriteCard ==
    /\ wmPc = "write"
    /\ \E ok \in BOOLEAN :
         IF getCardType(wmTarget) \in {TypeMifare, TypeNTAG} /\ ok
         THEN WriteLeave(0)
         ELSE WriteLeave(1)
    /\ UNCHANGED <<stateVars, worldVars, mainPc, pollVars, connVars, obsVars,
                   histVars, httpVars, dbVars, wmWasRunning, wmTries, wmDev, wmTarget, wmStarts,
                   svcRunning, svcStopping>>

\* restartService (main.go:651-660)
WriteRestart ==
    /\ wmPc = "restart"
    /\ IF wmWasRunning
       THEN /\ wmStarts' = wmStarts + 1
            /\ \E ok \in BOOLEAN :
                 IF ok
                 THEN svcRunning' = TRUE /\ wmExit' = wmExit
                 ELSE svcRunning' = svcRunning /\ wmExit' = 1
       ELSE UNCHANGED <<wmStarts, svcRunning, wmExit>>
    /\ wmPc' = "exit"
    /\ UNCHANGED <<stateVars, worldVars, mainPc, pollVars, connVars, obsVars,
                   histVars, httpVars, dbVars, wmWasRunning, wmTries, wmDev, wmTarget,
                   svcStopping>>

\* os.Exit (main.go:680-743): the deferred pnd.Close() of line 683 does
\* not run, the device is let go when the process is gone.
WriteExit ==
    /\ wmPc = "exit"
    /\ wmDev' = FALSE
    /\ wmPc' = "exited"
    /\ UNCHANGED <<stateVars, worldVars, mainPc, pollVars, connVars, obsVars,
                   histVars, httpVars, dbVars, wmWasRunning, wmTries, wmTarget, wmStarts, wmExit,
                   svcRunning, svcStopping>>

\* The service, told to stop, is gone.
SvcExit ==
    /\ svcStopping
    /\ svcRunning' = FALSE
    /\ svcStopping' = FALSE
    /\ UNCHANGED <<stateVars, worldVars, mainPc, pollVars, connVars, obsVars,
                   histVars, httpVars, dbVars, wmPc, wmWasRunning, wmTries, wmDev, wmTarget,
                   wmStarts, wmExit>>

----------------------------------------------------------------------------
\* The specifications.  Each runs the same service in one setting of its
\* surroundings: which clients connect, whether the reader fails, whether
\* the clock moves.

MainStart ==
    \/ MainStat \/ MainDisableLock \/ MainDisableCreate
    \/ MainSpawnPoll \/ MainListen

PollSteps ==
    \/ PollOpen \/ PollInit \/ PollReturn \/ PollTop \/ PollGet
    \/ PollSetActive \/ PollSuccess \/ PollWrite \/ PollCheck
    \/ PollLaunch \/ PollSleep

PollFaults == PollEIO \/ PollErr \/ PollLaunchFail

\* One client at a time sending any request, a reader and a launcher that
\* may fail, at one instant of the clock.
Next ==
    \/ MainStart
    \/ PollSteps \/ PollPoll \/ PollFaults
    \/ AccCheck \/ AccAcceptOne
    \/ Conn("c1")

Spec == Init /\ [][Next]_vars

\* Two clients switching the launcher off and on while tags come and go.
NextSwitch ==
    \/ MainStart
    \/ PollSteps \/ PollPollClean
    \/ AccCheck \/ AccAccept
    \/ \E c \in Conns : ConnSwitch(c)

SpecSwitch == Init /\ [][NextSwitch]_vars

\* Two clients sending any request; the poll loop has not got its device.
NextSocket ==
    \/ MainStart
    \/ StopClose \/ StopService
    \/ AccCheck \/ AccAccept
    \/ \E c \in Conns : Conn(c)

SpecSocket == Init /\ [][NextSocket]_vars

\* The same, where every goroutine that can take a step takes one in the
\* end, a call of conn.Read returns (the client sends, or hangs up), and a
\* goroutine waiting for the mutex gets it once it is released often enough.
SpecSocketFair ==
    /\ Init /\ [][NextSocket]_vars
    /\ WF_vars(MainStart)
    /\ \A c \in Conns : SF_vars(Conn(c))

\* The poll loop while the clock runs, until the service is stopped.
NextTimed ==
    \/ Tick
    \/ MainStart
    \/ StopClose \/ StopService
    \/ PollSteps \/ PollPollClean
    \/ AccCheck

SpecTimed == Init /\ [][NextTimed]_vars

\* The poll loop with a reader and a launcher that may fail, while the
\* clock runs.
NextFaults ==
    \/ Tick
    \/ MainStart
    \/ PollSteps \/ PollPollFaulty \/ PollFaults

SpecFaults == Init /\ [][NextFaults]_vars

\* The service found the sentinel file when it started: the launcher is
\* disabled until a client enables it.
InitStop ==
    /\ Init
    /\ sentinel = TRUE

\* The service with one client switching the launcher, stopped at any
\* moment.  Every goroutine that can take a step takes one in the end: a
\* blocking call returns, the mutex is granted, and the stop function, once
\* called, runs to its end.
NextStop ==
    \/ MainStart
    \/ StopClose \/ StopService
    \/ PollSteps \/ PollPollFaulty \/ PollFaults
    \/ AccCheck \/ AccAcceptOne
    \/ ConnSwitch("c1")

SpecStop ==
    /\ InitStop /\ [][NextStop]_vars
    /\ WF_vars(MainStart)
    /\ WF_vars(StopService)
    /\ SF_vars(PollSteps \/ PollPollFaulty \/ PollFaults)
    /\ SF_vars(AccCheck \/ AccAcceptOne)
    /\ SF_vars(ConnSwitch("c1"))

\* One client at a time asking for the status while the clock runs.
NextStatus ==
    \/ Tick
    \/ MainStart
    \/ PollSteps \/ PollPollClean
    \/ AccCheck \/ AccAcceptOne
    \/ ConnStatus("c1")

SpecStatus == Init /\ [][NextStatus]_vars

\* The database file changing under the watcher while a goroutine reads
\* the database and the clock runs.
NextDB ==
    \/ Tick
    \/ LoadRead \/ SetDB_Lock \/ SetDB_Time \/ SetDB_Uid \/ SetDB_Text
    \/ WatchAdd \/ WatchRecv \/ WatchWake \/ WatchStat
    \/ FileWrite \/ FileRemove \/ FileCreate
    \/ GetDB_Lock \/ GetDB_Uid \/ GetDB_Text \/ GetDB_Done

SpecDB == Init /\ [][NextDB]_vars

\* The write mode, run once.
NextWrite ==
    \/ WriteRunning \/ WriteStop \/ WriteWait \/ WriteNap
    \/ WriteOpen \/ WritePoll \/ WriteCard \/ WriteRestart \/ WriteExit
    \/ SvcExit

SpecWrite == InitWrite /\ [][NextWrite]_vars

----------------------------------------------------------------------------
\* The LaunchGame handler of the remote (launchers.go:15-42).  The server
\* runs the handler in a goroutine of its own for every request.

\* a request comes in and the handler is called (launchers.go:16-19)
HttpRequest(h) ==
    /\ hPc[h] \in {"idle", "return", "panic"}
    /\ \E b \in Bodies : hBody' = [hBody EXCEPT ![h] = b]
    /\ hPc' = [hPc EXCEPT ![h] = "decode"]
    /\ hPath' = [hPath EXCEPT ![h] = ""]
    /\ hSyss' = [hSyss EXCEPT ![h] = <<>>]
    /\ hStatus' = [hStatus EXCEPT ![h] = NoStatus]
    /\ hLaunched' = [hLaunched EXCEPT ![h] = NoSystem]
    /\ UNCHANGED nfcVars

\* json.NewDecoder(r.Body).Decode(&args) (launchers.go:21-26)
LaunchGameDecode(h) ==
    /\ hPc[h] = "decode"
    /\ IF hBody[h].ok
       THEN /\ hPath' = [hPath EXCEPT ![h] = hBody[h].path]
            /\ hPc' = [hPc EXCEPT ![h] = "systems"]
            /\ UNCHANGED hStatus
       ELSE /\ hStatus' = [hStatus EXCEPT ![h] = StatusBadRequest]
            /\ hPc' = [hPc EXCEPT ![h] = "return"]
            /\ UNCHANGED hPath
    /\ UNCHANGED <<nfcVars, hBody, hSyss, hLaunched>>

\* syss := games.FolderToSystems(args.Path) and, for no system, the call
\* of http.Error (launchers.go:28-30)
LaunchGameSystems(h) ==
    /\ hPc[h] = "systems"
    /\ LET syss == FolderToSystems(hPath[h]) IN
         /\ hSyss' = [hSyss EXCEPT ![h] = syss]
         /\ IF Len(syss) = 0
            THEN /\ hStatus' = [hStatus EXCEPT ![h] = StatusBadRequest]
                 /\ hPc' = [hPc EXCEPT ![h] = "nosys"]
            ELSE /\ hPc' = [hPc EXCEPT ![h] = "launch"]
                 /\ UNCHANGED hStatus
    /\ UNCHANGED <<nfcVars, hBody, hPath, hLaunched>>

\* logger.Error(..., args.Path, syss[0].Id) and the return after it
\* (launchers.go:31-32): the arguments are evaluated first, and the index
\* expression panics when the slice has no element 0
LaunchGameNoSystem(h) ==
    /\ hPc[h] = "nosys"
    /\ hPc' = [hPc EXCEPT ![h] = IF Len(hSyss[h]) >= 1 THEN "return"
                                                       ELSE "panic"]
    /\ UNCHANGED <<nfcVars, hBody, hPath, hSyss, hStatus, hLaunched>>

\* mister.LaunchGame(syss[0], args.Path) and its error (launchers.go:35-41)
LaunchGameLaunch(h) ==
    /\ hPc[h] = "launch"
    /\ hLaunched' = [hLaunched EXCEPT ![h] = hSyss[h][1]]
    /\ \E ok \in BOOLEAN :
         hStatus' = [hStatus EXCEPT ![h] =
                        IF ok THEN NoStatus ELSE StatusInternalServerError]
    /\ hPc' = [hPc EXCEPT ![h] = "return"]
    /\ UNCHANGED <<nfcVars, hBody, hPath, hSyss>>

LaunchGame(h) ==
    \/ LaunchGameDecode(h) \/ LaunchGameSystems(h)
    \/ LaunchGameNoSystem(h) \/ LaunchGameLaunch(h)

\* The remote serving launch requests, two at a time.
NextHttp ==
    \E h \in Handlers : HttpRequest(h) \/ LaunchGame(h)

SpecHttp == Init /\ [][NextHttp]_vars

----------------------------------------------------------------------------
\* Properties.  What an iteration of the poll loop saw and did is read off
\* its locals, which it keeps until it goes to sleep.

CountEv(name) ==
    Cardinality({i \in DOMAIN tickTrace : tickTrace[i].ev = name})
Launches == CountEv("launch")

TickOver == pollPc = "end"

\* the poll returned a tag with a UID that is not the active card's
NewArrival ==
    /\ pollRes.count > 0
    /\ getCardUID(pollRes.target) # EmptyStr
    /\ getCardUID(pollRes.target) # pActive.UID

\* the poll returned the tag that is the active card
Resighting ==
    /\ pollRes.count > 0
    /\ getCardUID(pollRes.target) # EmptyStr
    /\ getCardUID(pollRes.target) = pActive.UID

\* C1 as stated: every new arrival with the launcher enabled is launched
\* exactly once, and a tag seen again while it is the active card causes no
\* launch, no sound and no change of state.
C1_LaunchOncePerArrival ==
    TickOver =>
      /\ NewArrival /\ ~disableLauncher /\ ~pDisabled => Launches = 1
      /\ Resighting =>
           /\ tickTrace = <<Ev("set", EmptyStr)>>
           /\ activeCard = pActive
           /\ lastScanned = pActive

\* C1 amended: every new arrival whose poll and tag read succeed is launched
\* exactly once if the launcher is found enabled; a new arrival whose read
\* fails is not launched in that iteration; a tag seen again while it is the
\* active card causes no launch, no sound and no change of state.
C1_LaunchOncePerReadArrival ==
    TickOver =>
      /\ NewArrival /\ pollErr = "nil" /\ ~pDisabled => Launches = 1
      /\ NewArrival /\ pollErr # "nil" => Launches = 0
      /\ Resighting =>
           /\ tickTrace = <<Ev("set", EmptyStr)>>
           /\ activeCard = pActive
           /\ lastScanned = pActive

C1_Witness ==
    /\ TickOver
    /\ NewArrival
    /\ pActive.UID # EmptyStr
    /\ pollErr = "nil"
    /\ Launches = 1

\* C2: while less than timeToForgetCard has passed since the active card was
\* scanned, an iteration whose poll finds no tag leaves that card active.
C2_DropOutKeepsActiveCard ==
    /\ TickOver
    /\ pollErr = "nil"
    /\ pollRes.count = 0
    /\ pActive.UID # EmptyStr
    /\ now - pActive.ScanTime < timeToForgetCard
    => activeCard.UID = pActive.UID

C2_Witness ==
    /\ TickOver
    /\ pollRes.count = 0
    /\ pActive.UID # EmptyStr
    /\ now - pActive.ScanTime > 0
    /\ now - pActive.ScanTime < timeToForgetCard
    /\ activeCard = pActive

\* a poll has returned a tag within the last timeToForgetCard
SeenRecently == seenAt # ZeroTime /\ now - seenAt <= timeToForgetCard

\* C3 as stated, on the iterations that find no tag while a card is active:
\* when SetActiveCard has run, the active card is empty if and only if no
\* poll has returned a tag within the last timeToForgetCard.
C3_EmptyIffNotSeenRecently ==
    [][(/\ pollPc = "set"
        /\ pollPc' = "end"
        /\ pollRes.count = 0
        /\ pActive.UID # EmptyStr)
       => ((activeCard'.UID = EmptyStr) <=> ~SeenRecently')]_vars

StartupDone == mainPc \notin {"stat", "disable", "create"}

FirstComma(str) ==
    IF \E i \in DOMAIN str : str[i] = ","
    THEN CHOOSE i \in DOMAIN str :
           str[i] = "," /\ \A j \in 1 .. i - 1 : str[j] # ","
    ELSE 0

RECURSIVE SplitN(_, _)
SplitN(str, n) ==
    IF n <= 1 \/ FirstComma(str) = 0 THEN <<str>>
    ELSE <<SubSeq(str, 1, FirstComma(str) - 1)>>
         \o SplitN(SubSeq(str, FirstComma(str) + 1, Len(str)), n - 1)

DigitValue(ch) == CHOOSE d \in 0 .. 9 : DigitChars[d + 1] = ch

RECURSIVE ParseInt(_)
ParseInt(str) ==
    IF Len(str) = 0 THEN 0
    ELSE 10 * ParseInt(SubSeq(str, 1, Len(str) - 1)) + DigitValue(str[Len(str)])

ParseBool(str) == str = <<"t", "r", "u", "e">>

StatusReady(c) == connCmd[c] = "status" /\ connPc[c] \in {"write", "close"}

\* C7: a status reply splits at its first three commas into the Unix time,
\* the UID and the text of the card the handler read from last_scanned, with
\* the negation of launcher_disabled between them, or is "0,,<bool>," when
\* that card is empty; last_scanned is the last card that became active,
\* and is empty until a card has.
C7_StatusReplyParsesBack ==
    /\ lastScanned = lastArrival
    /\ \A c \in Conns : StatusReady(c) =>
         LET f == SplitN(connPayload[c], 4) IN
           /\ Len(f) = 4
           /\ ParseBool(f[3]) = ~disableLauncher
           /\ f[3] = FormatBool(~disableLauncher)
           /\ connLast[c] \in {lastScanned, EmptyCard}
                 \/ connLast[c].ScanTime <= lastScanned.ScanTime
           /\ IF connLast[c].UID # EmptyStr
              THEN /\ ParseInt(f[1]) = Unix(connLast[c].ScanTime)
                   /\ f[2] = connLast[c].UID
                   /\ f[4] = connLast[c].Text
              ELSE /\ connLast[c] = EmptyCard
                   /\ connPayload[c] = <<"0", ",", ",">>
                        \o FormatBool(~disableLauncher) \o <<",">>

C7_Witness ==
    /\ StatusReady("c1")
    /\ connLast["c1"].UID = <<"a">>
    /\ connLast["c1"].Text = <<"g", ",", "h">>
    /\ Unix(connLast["c1"].ScanTime) >= 10
    /\ connPayload["c1"] = <<"1", "0", ",", "a", ",", "f", "a", "l", "s", "e",
                             ",", "g", ",", "h">>

\* C8: whatever the interleaving of SetDB with GetDB calls, the pair GetDB
\* returns is one database: both maps come from the same SetDB call (or
\* both are the nil maps from before the first one).
C8_GetDBPairFromOneSetDB ==
    rPc = "got" => rUid = rText

\* GetDB has returned a database, and a SetDB that has since started is
\* half way: the maps in memory are of two databases
C8_Witness ==
    /\ rPc = "got"
    /\ rUid = rText
    /\ rUid # NilMap
    /\ ldPc = "text"
    /\ uidMap # textMap

\* The watcher is back at its select with no event waiting and the file is
\* there and watched.
WatcherQuiet ==
    /\ wPc = "recv"
    /\ ldPc = "idle"
    /\ events = <<>>
    /\ fileExists
    /\ watching

\* C9: every change written to the database file is followed by a reload
\* made after it: once the watcher has taken every event and is idle, the
\* published database is the file's content.
C9_ReloadFollowsEveryWrite ==
    WatcherQuiet => uidMap = dbFile /\ textMap = dbFile

\* C10: the write mode never leaves a service it found running stopped
\* without having asked the service manager to start it: when the process
\* has exited and the service is no longer running nor stopping, Start was
\* called.
C10_RestartOnEveryExit ==
    (wmPc = "exited" /\ wmWasRunning /\ ~svcRunning /\ ~svcStopping)
        => wmStarts = 1

\* C11: the write mode has closed the device before it asks the service to
\* start again: once Start has been called, the write mode holds no device.
C11_DeviceClosedBeforeStart ==
    wmStarts > 0 => ~wmDev

\* C12: the poll loop keeps running across reader disconnects: a
\* reconnection (openDeviceWithRetries reached again with a handle already
\* opened, that is after an EIO error) never ends the poll loop.
C12_ReconnectNeverGivesUp ==
    [][(pollPc = "open" /\ handles >= 1) => pollPc' # "return"]_vars

\* The thread is inside, or about to make, a call that does file-system,
\* socket or device I/O.
InIO(t) ==
    IF t = "main" THEN mainPc \in {"stat", "create", "listen"}
    ELSE IF t = "poll"
    THEN pollPc \in {"open", "init", "poll", "success", "write", "launch"}
    ELSE connPc[t] \in {"read", "create", "remove", "write", "close"}

\* C13: no operation does file-system, socket or device I/O while it holds
\* the ServiceState mutex: a thread inside an I/O call does not hold it.
C13_NoIOUnderLock ==
    \A t \in Conns \cup {"main", "poll"} : InIO(t) => mu # t

\* What an arrival does to the world outside the service.
Effects == {"success", "scanfile", "launch"}

\* C14: for every new arrival SetActiveCard comes before any external effect
\* of that arrival: each success sound, last-scan write and launch of an
\* iteration follows its SetActiveCard, and is made while active_card and
\* last_scanned hold the new card.
C14_StateBeforeEffects ==
    /\ \A i \in 1 .. Len(tickTrace) :
         tickTrace[i].ev \in Effects
            => \E j \in 1 .. i - 1 : tickTrace[j].ev = "set"
    /\ pollPc \in {"success", "write", "check", "launch"}
         => /\ newScanned.UID # EmptyStr
            /\ activeCard = newScanned
            /\ lastScanned = newScanned

\* an arrival that was announced, written and launched, after another card
C14_Witness ==
    /\ TickOver
    /\ [i \in 1 .. Len(tickTrace) |-> tickTrace[i].ev]
         = <<"set", "success", "scanfile", "launch">>
    /\ pActive.UID # EmptyStr
    /\ activeCard = newScanned
    /\ activeCard.UID \notin {EmptyStr, pActive.UID}

C16_SentinelDecidesAtStart ==
    /\ mainPc = "listen" => (pollPc # "idle" /\ disableLauncher = sentinelAtStart)
    /\ (sentinelAtStart /\ ~enableSeen /\ pollPc # "idle")
          => (disableLauncher /\ Launches = 0 /\ pollPc # "launch")

\* started with the file there, a tag has arrived, was stored and was not
\* launched, after a `disable` request too
C16_Witness ==
    /\ sentinelAtStart
    /\ ~enableSeen
    /\ answered = "disable"
    /\ TickOver
    /\ NewArrival
    /\ pDisabled
    /\ activeCard = newScanned

\* The iteration's record has a fail sound more after the step.
FailPlayed ==
    Len(SelectSeq(tickTrace', LAMBDA e : e.ev = "fail"))
        > Len(SelectSeq(tickTrace, LAMBDA e : e.ev = "fail"))

\* C19: the poll loop never plays a fail sound within 1 second of the fail
\* sound it played before, whatever the error paths taken.
C19_FailSoundsOneSecondApart ==
    [][FailPlayed => (failAt = ZeroTime \/ now - failAt >= failSoundGap)]_vars

\* C17: in every reachable state, if active_card.uid is not empty then
\* last_scanned equals active_card: same type, uid, text and scan time.
C17_LastScannedIsActiveCard ==
    activeCard.UID # EmptyStr => lastScanned = activeCard

\* a second tag, scanned later than the first, is the active card and the
\* last scanned one
C17_Witness ==
    /\ TickOver
    /\ pActive.UID # EmptyStr
    /\ activeCard.UID \notin {EmptyStr, pActive.UID}
    /\ activeCard.ScanTime > pActive.ScanTime
    /\ lastScanned = activeCard

\* C18: the poll loop never holds more than one open device handle, after
\* any number of reconnections: the handle it held is released before
\* openDeviceWithRetries is run again.
C18_OneHandleAtMost ==
    handles <= 1

\* C20: after the stop function has run (socket closed, stop flag set) the
\* poll loop and the socket acceptor both end, given that every blocking
\* call in flight returns; and once the poll loop has left its loop it
\* starts no new poll.
C20_StopEndsBothThreads ==
    /\ stopService ~> (pollPc = "done" /\ accPc = "done")
    /\ [][(pollPc \in {"return", "done"})
             => (pollPc' \in {"return", "done"})]_vars

\* the service was stopped while a tag was active; the poll loop has closed
\* its device and the acceptor is gone
C20_Witness ==
    /\ stopService
    /\ ~socketOpen
    /\ pollPc = "done"
    /\ accPc = "done"
    /\ handles = 0
    /\ activeCard.UID # EmptyStr

\* The poll of this iteration, or the read of the tag it found, failed with
\* an error other than EIO: InitiatorPollTarget returned one (a timeout is
\* none, main.go:155), or readNtag / readMifare did (main.go:184-197) on a
\* tag that is not the active card.
TickFailed ==
    \/ pollRes.err \notin {"nil", "ETIMEOUT", "EIO"}
    \/ /\ pollRes.err \in {"nil", "ETIMEOUT"}
       /\ pollRes.count > 0
       /\ getCardUID(pollRes.target) # pActive.UID
       /\ getCardType(pollRes.target) \in {TypeNTAG, TypeMifare}
       /\ ~pollRes.readOk

\* C21: an iteration whose poll or tag read fails with an error that is not
\* the fatal device error changes neither active_card nor last_scanned,
\* plays no success sound, writes no last-scan file and launches nothing,
\* and goes on to the sleep before the next iteration; a poll that timed
\* out is no error and yields what a poll with count = 0 yields.
C21_FailedTickChangesNothing ==
    /\ [](TickFailed
            => /\ \A i \in 1 .. Len(tickTrace) : tickTrace[i].ev \notin Effects
               /\ pollPc \in {"err", "end"})
    /\ [](pollRes.err = "ETIMEOUT"
            => /\ pollErr = "nil"
               /\ newScanned = pollDevice(pActive, NoResult).card)
    /\ [][TickFailed => /\ activeCard' = activeCard
                        /\ lastScanned' = lastScanned]_vars

\* The step takes active_card from a card with a UID to one without.
CardCleared == activeCard.UID # EmptyStr /\ activeCard'.UID = EmptyStr

\* The iteration found the active card gone: its poll returned no target
\* and pollDevice gave back the empty Card (main.go:159-165).
Removal ==
    /\ pollPc \in {"set", "end"}
    /\ pollRes.count <= 0
    /\ pActive.UID # EmptyStr
    /\ newScanned = EmptyCard

\* C22: active_card goes from a card with a UID to the empty Card only in
\* an iteration whose poll returned count <= 0 with more than
\* timeToForgetCard elapsed since active_card's scan time; a poll that
\* returns a target, one with an empty UID string included, never clears
\* active_card; and a removal launches nothing.
C22_ClearedOnlyByRemoval ==
    /\ [][CardCleared => /\ pollRes.count <= 0
                         /\ Since(pActive.ScanTime) > timeToForgetCard]_vars
    /\ [](Removal => Launches = 0)

\* the handler has a decoded request whose path has no system
NoSystemFound(h) ==
    /\ hBody[h].ok
    /\ hPc[h] \in {"nosys", "return", "panic"}
    /\ Len(FolderToSystems(hBody[h].path)) = 0

\* C23: for a request whose path maps to no system the LaunchGame handler
\* answers 400 Bad Request, launches nothing and returns normally: it never
\* reads element 0 of the empty list, so no panic state is reachable.
C23_NoSystemIsBadRequest ==
    \A h \in Handlers :
        /\ hPc[h] # "panic"
        /\ NoSystemFound(h) => /\ hStatus[h] = StatusBadRequest
                               /\ hLaunched[h] = NoSystem

====
